---- MODULE Spec2Model ----
(***************************************************************************)
(* Model of the SecretCalc pairing and relay server (src/server.js).       *)
(*                                                                         *)
(* The server is a single-threaded event loop.  A handler runs without     *)
(* interruption up to its next `await`; there it is suspended until the    *)
(* awaited storage operation has been executed, and other handlers run in  *)
(* between.  Every action below is therefore one awaited storage          *)
(* operation together with the synchronous code around it: the code that  *)
(* follows it up to the next `await` or the end of the handler and, for   *)
(* the first `await` of a handler, the code that leads to it.  A handler  *)
(* whose synchronous prefix reads the session table has that prefix as an *)
(* action of its own (its name ends in Begin).                            *)
(***************************************************************************)
EXTENDS Integers, Sequences, FiniteSets, TLC

\* ---------------------------------------------------------------- bounds
MaxReqs  == 3      \* pairing requests received while the registry is studied
MaxDocs  == 2      \* PairingCode documents ever constructed
MaxTicks == 2      \* clock advances
MaxConns == 2      \* socket connections ever accepted
MaxMsgs  == 2      \* Message documents ever constructed
MaxMarks == 2      \* message_read events ever handled
MaxSignals == 1    \* call signaling events ever relayed
MaxAuth  == 1      \* unpair requests that can be in flight at once
RelayReqs == 2     \* pairing requests received while the sockets are studied
RelayMsgs == 1     \* Message documents constructed while every socket event is studied
RelayMarks == 1    \* message_read events handled while every socket event is studied
RoomReqs == 4      \* pairing requests received while two rooms are studied
RoomConns == 1     \* socket connections accepted while two rooms are studied

Reqs  == 1..RoomReqs
Conns == 1..MaxConns
MsgIds == 1..MaxMsgs
MarkIds == 1..MaxMarks
AuthReqs == 1..MaxAuth

\* ------------------------------------------------------- input domains
Devices  == {"dA", "dB", "dC"}          \* req.body.deviceId
CodeStrs == {"100000", "999999"}        \* results of the 6-digit draw
UUIDs    == <<"r1", "r2", "r3", "r4">>  \* successive crypto.randomUUID() results
UUID(n)  == UUIDs[n]
Contents == {"hi", ""}                   \* send_message content ("" fails `required`)

ExpiryMs == 5 * 60 * 1000                \* 5 minutes
TickMs   == ExpiryMs                     \* granularity of the model's clock

VARIABLES
    now,          \* Date.now()
    codes,        \* PairingCode collection
    rooms,        \* Room collection
    messages,     \* Message collection
    nextDoc,      \* number of PairingCode documents constructed so far, plus one
    req,          \* pairing requests, numbered in order of arrival -> handler state
    auth,         \* unpair requests in flight: slot -> handler state
    answered,     \* the last response of a request behind authMiddleware
    issued,       \* history: the claims signed by jwt.sign, with how each left the server
    rejected,     \* history: _id of the rows for which 410 was answered
    unpaired,     \* history: roomIds for which an unpair request has answered
    conn,         \* socket -> "new" | "open" | "closed"
    channels,     \* socket -> socket.io rooms it is in
    socketRooms,  \* socketId -> { deviceId, roomId }
    joined,       \* history: live socket -> rooms it entered through join_room
    emitted,      \* the last event the server emitted, and the sockets it reached
    received,     \* socket -> _id of the 'new_message' events it was sent, in order
    acked,        \* the last acknowledgement passed to a send_message callback
    send,         \* send_message handlers, by the _id of the Message they construct
    nextMsg,      \* number of Message documents constructed so far, plus one
    mark,         \* message_read handlers
    nextMark,     \* number of message_read events handled so far, plus one
    nSignal       \* number of call signaling events relayed so far

vars == <<now, codes, rooms, messages, nextDoc, req, auth, answered, issued, rejected,
          unpaired, conn, channels, socketRooms, joined, emitted, received, acked,
          send, nextMsg, mark, nextMark, nSignal>>

storeVars  == <<codes, rooms, messages>>
socketVars == <<conn, channels, socketRooms, joined, emitted, received, acked>>
taskVars   == <<send, nextMsg, mark, nextMark, nSignal>>
restVars   == <<req, auth, answered>>

\* ------------------------------------------------------------- documents
NoRow == [id |-> 0, code |-> "", deviceId |-> "", roomId |-> "",
          paired |-> FALSE, expiresAt |-> 0]

NoToken == [deviceId |-> "", roomId |-> "", sig |-> <<>>]

NoCtx == [deviceId |-> "", roomId |-> ""]

\* jwt.sign(payload, JWT_SECRET): the signature binds the payload to the secret.
Hmac(d, r) == <<"JWT_SECRET", d, r>>

JwtSign(d, r) == [deviceId |-> d, roomId |-> r, sig |-> Hmac(d, r)]

\* A slip: the token is decoded and its signature not checked.
JwtDecode(t) == TRUE

\* jwt.verify(token, JWT_SECRET) succeeds iff the signature is the payload's.
JwtVerify(t) == t.sig = Hmac(t.deviceId, t.roomId)

\* Tokens a client can present that the server never signed.
Forged == {[deviceId |-> "dC", roomId |-> UUID(1), sig |-> <<"forged">>]}

NoRes == [status |-> 0, error |-> "", code |-> "", roomId |-> "",
          token |-> NoToken, messages |-> {}]

Reply(status, error) == [NoRes EXCEPT !.status = status, !.error = error]

IdleReq == [op |-> "none", pc |-> "idle", deviceId |-> "", code |-> "",
            pairing |-> NoRow, at |-> 0, res |-> NoRes]

IdleAuth == [pc |-> "idle", roomId |-> ""]

\* A response of a request behind authMiddleware.  `stale` is history: the
\* request arrived after an unpair of its claim's room had been answered.
Answer(op, roomId, token, stale, status, error, msgs) ==
    [op |-> op, roomId |-> roomId, user |-> token, stale |-> stale,
     status |-> status, error |-> error, messages |-> msgs]

NoAnswer == Answer("none", "", NoToken, FALSE, 0, "", {})

IdleSend == [pc |-> "idle", conn |-> 0, ctx |-> NoCtx, content |-> "", cb |-> FALSE,
             timestamp |-> 0]

IdleMark == [pc |-> "idle", conn |-> 0, ctx |-> NoCtx, messageId |-> 0]

\* Request p is the next one to arrive.
Free(p) == req[p].pc = "idle" /\ \A q \in Reqs : q < p => req[q].pc # "idle"

\* Slot a is the first free one.
FreeAuth(a) == auth[a].pc = "idle" /\ \A b \in AuthReqs : b < a => auth[b].pc # "idle"

Finish(r, res) == [r EXCEPT !.pc = "done", !.res = res]

\* ---------------------------------------------------------- socket.io
\* io.to(channel): every connected socket that is in the channel.
IoTo(ch) == {c \in Conns : conn[c] = "open" /\ ch \in channels[c]}

\* A slip: io.to in the place of socket.to.
SocketToAll(c, ch) == IoTo(ch)

\* socket.to(channel): the same, except the socket itself.
SocketTo(c, ch) == IoTo(ch) \ {c}

\* A slip: a socket without a session is served as a member of the first room.
SessionGetOrFirst(table, c) ==
    IF table[c] = NoCtx THEN [deviceId |-> "", roomId |-> UUID(1)] ELSE table[c]

\* socketRooms.get(socket.id)
SessionGet(table, c) == table[c]

\* A slip: the session is left in the table when its socket closes.
SessionKeep(table, c) == table

\* socketRooms.delete(socket.id)
SessionUnbind(table, c) == [table EXCEPT ![c] = NoCtx]

\* socketRooms.set(socket.id, { deviceId, roomId })
SessionBind(table, c, d, r) == [table EXCEPT ![c] = [deviceId |-> d, roomId |-> r]]

\* An event `kind` emitted on channel ch by (the handler of) socket `from`, 0
\* for a REST handler, and the sockets `to` it is sent to.
Emit(kind, ch, from, to, msg, dev, tok) ==
    [kind |-> kind, room |-> ch, from |-> from, to |-> to, msg |-> msg,
     deviceId |-> dev, token |-> tok, read |-> FALSE]

NoEmit == Emit("none", "", 0, {}, 0, "", NoToken)

NoAck == [to |-> {}, success |-> FALSE, messageId |-> 0]

\* ------------------------------------------------------- storage queries
\* PairingCode.deleteMany({ deviceId, paired: false })
DeleteManyPending(rows, d) == {r \in rows : ~(r.deviceId = d /\ r.paired = FALSE)}

\* PairingCode.findOne({ code, paired: false }); `code` is a unique index.
FindOnePending(rows, c) ==
    IF \E r \in rows : r.code = c /\ r.paired = FALSE
    THEN CHOOSE r \in rows : r.code = c /\ r.paired = FALSE
    ELSE NoRow

\* PairingCode.deleteOne({ _id })
DeleteOneById(rows, id) == {r \in rows : r.id # id}

\* A slip in the comparison: a code is refused at the very instant it expires.
IsExpiredInclusive(pairing, t) == t >= pairing.expiresAt

\* new Date() > pairing.expiresAt
IsExpired(pairing, t) == t > pairing.expiresAt

\* The checks in another order: the self-pairing check before the expiry check.
EnterCheckSelfFirst(pairing, deviceId, t) ==
    IF pairing = NoRow THEN "NotFound"
    ELSE IF pairing.deviceId = deviceId THEN "SelfPairing"
    ELSE IF IsExpired(pairing, t) THEN "Expired"
    ELSE "Proceed"

\* The checks of pairing-enter on the row it read, in the order of the code.
EnterCheck(pairing, deviceId, t) ==
    IF pairing = NoRow THEN "NotFound"
    ELSE IF IsExpired(pairing, t) THEN "Expired"
    ELSE IF pairing.deviceId = deviceId THEN "SelfPairing"
    ELSE "Proceed"

\* new PairingCode({ code, deviceId, roomId, expiresAt }), its _id the n-th
\* ObjectId and its roomId the n-th UUID, constructed at time t.
NewPairingCode(n, c, d, t) ==
    [id |-> n, code |-> c, deviceId |-> d, roomId |-> UUID(n), paired |-> FALSE,
     expiresAt |-> t + ExpiryMs]

\* A slip: the entering device recorded twice.
NewRoomOfOne(pairing, deviceId) ==
    [roomId |-> pairing.roomId, devices |-> <<deviceId, deviceId>>]

\* new Room({ roomId: pairing.roomId, devices: [pairing.deviceId, deviceId] })
NewRoom(pairing, deviceId) ==
    [roomId |-> pairing.roomId, devices |-> <<pairing.deviceId, deviceId>>]

\* ------------------------------------------------------------------ Init
Init ==
    /\ now = 0
    /\ codes = {}
    /\ rooms = {}
    /\ messages = {}
    /\ nextDoc = 1
    /\ req = [p \in Reqs |-> IdleReq]
    /\ auth = [a \in AuthReqs |-> IdleAuth]
    /\ answered = NoAnswer
    /\ issued = {}
    /\ rejected = {}
    /\ unpaired = {}
    /\ conn = [c \in Conns |-> "new"]
    /\ channels = [c \in Conns |-> {}]
    /\ socketRooms = [c \in Conns |-> NoCtx]
    /\ joined = [c \in Conns |-> {}]
    /\ emitted = NoEmit
    /\ received = [c \in Conns |-> <<>>]
    /\ acked = NoAck
    /\ send = [m \in MsgIds |-> IdleSend]
    /\ nextMsg = 1
    /\ mark = [k \in MarkIds |-> IdleMark]
    /\ nextMark = 1
    /\ nSignal = 0

\* The clock advances.
Tick ==
    /\ now + TickMs <= MaxTicks * TickMs
    /\ now' = now + TickMs
    /\ UNCHANGED <<storeVars, nextDoc, restVars, issued, rejected, unpaired, socketVars, taskVars>>

\* ------------------------------------------- POST /api/pairing/generate
\* The handler up to its second await: the check of the body, then
\* await PairingCode.deleteMany(...), then the new document is constructed.
\* c is the result of the random draw.
Generate(p, d, c) ==
    /\ Free(p)
    /\ IF d = ""
       THEN /\ req' = [req EXCEPT ![p] = Finish([IdleReq EXCEPT !.op = "generate"],
                                                Reply(400, "deviceId required"))]
            /\ UNCHANGED <<codes, nextDoc>>
       ELSE /\ nextDoc <= MaxDocs
            /\ codes' = DeleteManyPending(codes, d)
            /\ req' = [req EXCEPT ![p] =
                         [IdleReq EXCEPT !.op = "generate", !.pc = "g_save", !.deviceId = d,
                                         !.pairing = NewPairingCode(nextDoc, c, d, now)]]
            /\ nextDoc' = nextDoc + 1
    /\ UNCHANGED <<now, rooms, messages, auth, answered, issued, rejected, unpaired, socketVars, taskVars>>

\* await pairing.save(): an insert, refused by the unique index on `code`.
GenerateSave(p) ==
    /\ req[p].pc = "g_save"
    /\ LET doc == req[p].pairing IN
       IF \E r \in codes : r.code = doc.code
       THEN /\ req' = [req EXCEPT ![p] = Finish(@, Reply(500, "Server error"))]
            /\ UNCHANGED codes
       ELSE /\ codes' = codes \cup {doc}
            /\ req' = [req EXCEPT ![p] = Finish(@, [NoRes EXCEPT !.status = 200,
                                                       !.code = doc.code,
                                                       !.roomId = doc.roomId])]
    /\ UNCHANGED <<now, rooms, messages, nextDoc, auth, answered, issued, rejected, unpaired, socketVars, taskVars>>

\* ---------------------------------------------- POST /api/pairing/enter
\* The handler up to its second await: the check of the body, then
\* await PairingCode.findOne(...), then the three checks on the row read.
Enter(p, c, d) ==
    /\ Free(p)
    /\ LET pairing == FindOnePending(codes, c)
           r == [IdleReq EXCEPT !.op = "enter", !.code = c, !.deviceId = d,
                                !.pairing = pairing, !.at = now]
           verdict == EnterCheck(pairing, d, now)
       IN req' = [req EXCEPT ![p] =
            CASE c = "" \/ d = "" ->
                    Finish([IdleReq EXCEPT !.op = "enter"],
                           Reply(400, "code and deviceId required"))
              [] verdict = "NotFound" -> Finish(r, Reply(404, "Code not found or already used"))
              [] verdict = "Expired" -> [r EXCEPT !.pc = "e_delete"]
              [] verdict = "SelfPairing" -> Finish(r, Reply(400, "Cannot pair with yourself"))
              [] OTHER -> [r EXCEPT !.pc = "e_save", !.pairing.paired = TRUE]]
    /\ UNCHANGED <<now, storeVars, nextDoc, auth, answered, issued, rejected, unpaired, socketVars, taskVars>>

\* await PairingCode.deleteOne({ _id }), then 410.
EnterDeleteOne(p) ==
    /\ req[p].pc = "e_delete"
    /\ codes' = DeleteOneById(codes, req[p].pairing.id)
    /\ rejected' = rejected \cup {req[p].pairing.id}
    /\ req' = [req EXCEPT ![p] = Finish(@, Reply(410, "Code expired"))]
    /\ UNCHANGED <<now, rooms, messages, nextDoc, auth, answered, issued, unpaired, socketVars, taskVars>>

\* await pairing.save(): updates `paired` of the stored document with this _id;
\* Mongoose throws DocumentNotFoundError when no document has it.
EnterSavePaired(p) ==
    /\ req[p].pc = "e_save"
    /\ IF \E r \in codes : r.id = req[p].pairing.id
       THEN /\ codes' = {IF r.id = req[p].pairing.id THEN [r EXCEPT !.paired = TRUE] ELSE r
                           : r \in codes}
            /\ req' = [req EXCEPT ![p].pc = "e_room"]
       ELSE /\ req' = [req EXCEPT ![p] = Finish(@, Reply(500, "Server error"))]
            /\ UNCHANGED codes
    /\ UNCHANGED <<now, rooms, messages, nextDoc, auth, answered, issued, rejected, unpaired, socketVars, taskVars>>

\* await room.save(): an insert, refused by the unique index on `roomId`;
\* then both claims are signed, 'paired' is pushed and the request answered.
EnterSaveRoom(p) ==
    /\ req[p].pc = "e_room"
    /\ LET pairing == req[p].pairing
           token1 == JwtSign(pairing.deviceId, pairing.roomId)
           token2 == JwtSign(req[p].deviceId, pairing.roomId)
           rcpts == IoTo(pairing.deviceId)
       IN
       IF \E r \in rooms : r.roomId = pairing.roomId
       THEN /\ req' = [req EXCEPT ![p] = Finish(@, Reply(500, "Server error"))]
            /\ UNCHANGED <<rooms, issued, emitted>>
       ELSE /\ rooms' = rooms \cup {NewRoom(pairing, req[p].deviceId)}
            /\ issued' = issued \cup {[token |-> token1, via |-> "paired"],
                                      [token |-> token2, via |-> "response"]}
            /\ emitted' = Emit("paired", pairing.deviceId, 0, rcpts, 0, "", token1)
            /\ req' = [req EXCEPT ![p] = Finish(@, [NoRes EXCEPT !.status = 200,
                                                       !.roomId = pairing.roomId,
                                                       !.token = token2])]
    /\ UNCHANGED <<now, codes, messages, nextDoc, auth, answered, rejected, unpaired,
                   conn, channels, socketRooms, joined, received, acked, taskVars>>

\* An awaited save of pairing-enter is rejected by the store (connection lost,
\* timeout): the catch block answers 500 and nothing else is done.
EnterSaveThrows(p) ==
    /\ req[p].pc \in {"e_save", "e_room"}
    /\ req' = [req EXCEPT ![p] = Finish(@, Reply(500, "Server error"))]
    /\ UNCHANGED <<now, storeVars, nextDoc, auth, answered, issued, rejected, unpaired,
                   socketVars, taskVars>>

\* ------------------------------------------------------------ Socket.io
Connect(c) ==
    /\ conn[c] = "new"
    /\ conn' = [conn EXCEPT ![c] = "open"]
    /\ UNCHANGED <<now, storeVars, nextDoc, restVars, issued, rejected, unpaired,
                   channels, socketRooms, joined, emitted, received, acked, taskVars>>

\* socket.on('register_device'): joins the channel named by the string sent.
RegisterDevice(c, deviceId) ==
    /\ conn[c] = "open"
    /\ channels' = [channels EXCEPT ![c] = @ \cup {deviceId}]
    /\ UNCHANGED <<now, storeVars, nextDoc, restVars, issued, rejected, unpaired,
                   conn, socketRooms, joined, emitted, received, acked, taskVars>>

\* socket.on('join_room'): the claim is verified and compared with the room asked
\* for; a failure is reported to the caller alone.
JoinRoom(c, roomId, token) ==
    /\ conn[c] = "open"
    /\ IF ~JwtVerify(token)
       THEN /\ emitted' = Emit("error", "", c, {c}, 0, "Auth failed", NoToken)
            /\ UNCHANGED <<channels, socketRooms, joined>>
       ELSE IF token.roomId # roomId
       THEN /\ emitted' = Emit("error", "", c, {c}, 0, "Invalid room", NoToken)
            /\ UNCHANGED <<channels, socketRooms, joined>>
       ELSE /\ channels' = [channels EXCEPT ![c] = @ \cup {roomId}]
            /\ socketRooms' = SessionBind(socketRooms, c, token.deviceId, roomId)
            /\ joined' = [joined EXCEPT ![c] = @ \cup {roomId}]
            /\ emitted' = Emit("peer_online", roomId, c, SocketTo(c, roomId), 0,
                               token.deviceId, NoToken)
    /\ UNCHANGED <<now, storeVars, nextDoc, restVars, issued, rejected, unpaired,
                   conn, received, acked, taskVars>>

\* socket.on('send_message') up to its await: the session is looked up and the
\* Message constructed; cb tells whether the client passed a callback.
SendBegin(c, content, cb) ==
    /\ conn[c] = "open"
    /\ IF SessionGet(socketRooms, c) = NoCtx
       THEN UNCHANGED <<send, nextMsg>>
       ELSE /\ nextMsg <= MaxMsgs
            /\ send' = [send EXCEPT ![nextMsg] =
                          [pc |-> "saving", conn |-> c, ctx |-> SessionGet(socketRooms, c),
                           content |-> content, cb |-> cb, timestamp |-> now]]
            /\ nextMsg' = nextMsg + 1
    /\ UNCHANGED <<now, storeVars, nextDoc, restVars, issued, rejected, unpaired,
                   socketVars, mark, nextMark, nSignal>>

\* new Message({ roomId: ctx.roomId, senderId: ctx.deviceId, content, ... })
NewMessage(m) ==
    [id |-> m, roomId |-> send[m].ctx.roomId, senderId |-> send[m].ctx.deviceId,
     content |-> send[m].content, read |-> FALSE, timestamp |-> send[m].timestamp]

\* A slip: 'new_message' relayed like the other events, with socket.to.
NewMessageToOthers(m) == SocketTo(send[m].conn, send[m].ctx.roomId)

\* io.to(ctx.roomId).emit('new_message', payload)
NewMessageTo(m) == IoTo(send[m].ctx.roomId)

\* A slip: the callback is never called.
AckToNobody(m) == {}

\* callback(...): the acknowledgement goes to the socket of the event, if the
\* client passed a callback and is still connected.
AckTo(m) == IF send[m].cb /\ conn[send[m].conn] = "open" THEN {send[m].conn} ELSE {}

\* await msg.save() and what follows it: the broadcast to the room and the
\* acknowledgement; an empty `content` fails the schema's `required`.
SendSave(m) ==
    /\ send[m].pc = "saving"
    /\ LET msg == NewMessage(m)
           rcpts == NewMessageTo(m)
       IN
       IF msg.content = ""
       THEN /\ acked' = [to |-> AckTo(m), success |-> FALSE, messageId |-> 0]
            /\ UNCHANGED <<messages, emitted, received>>
       ELSE /\ messages' = messages \cup {msg}
            /\ emitted' = [Emit("new_message", msg.roomId, send[m].conn, rcpts, m,
                                msg.senderId, NoToken) EXCEPT !.read = msg.read]
            /\ received' = [c \in Conns |->
                              IF c \in rcpts THEN Append(received[c], m) ELSE received[c]]
            /\ acked' = [to |-> AckTo(m), success |-> TRUE, messageId |-> m]
    /\ send' = [send EXCEPT ![m] = [IdleSend EXCEPT !.pc = "done"]]
    /\ UNCHANGED <<now, codes, rooms, nextDoc, restVars, issued, rejected, unpaired,
                   conn, channels, socketRooms, joined, nextMsg, mark, nextMark, nSignal>>

\* socket.on('message_read') up to its await.
MarkBegin(c, messageId) ==
    /\ conn[c] = "open"
    /\ IF SessionGet(socketRooms, c) = NoCtx
       THEN UNCHANGED <<mark, nextMark>>
       ELSE /\ nextMark <= MaxMarks
            /\ mark' = [mark EXCEPT ![nextMark] =
                          [pc |-> "updating", conn |-> c, ctx |-> SessionGet(socketRooms, c),
                           messageId |-> messageId]]
            /\ nextMark' = nextMark + 1
    /\ UNCHANGED <<now, storeVars, nextDoc, restVars, issued, rejected, unpaired,
                   socketVars, send, nextMsg, nSignal>>

\* A slip: the flag is toggled.
UpdateReadToggle(rows, messageId) ==
    {IF r.id = messageId THEN [r EXCEPT !.read = ~r.read] ELSE r : r \in rows}

\* Message.updateOne({ _id: messageId }, { read: true })
UpdateRead(rows, messageId) ==
    {IF r.id = messageId THEN [r EXCEPT !.read = TRUE] ELSE r : r \in rows}

\* await Message.updateOne(...) and the broadcast that follows it.
MarkUpdate(k) ==
    /\ mark[k].pc = "updating"
    /\ messages' = UpdateRead(messages, mark[k].messageId)
    /\ emitted' = Emit("message_read", mark[k].ctx.roomId, mark[k].conn,
                       SocketTo(mark[k].conn, mark[k].ctx.roomId),
                       mark[k].messageId, "", NoToken)
    /\ mark' = [mark EXCEPT ![k] = [IdleMark EXCEPT !.pc = "done",
                                                   !.messageId = mark[k].messageId]]
    /\ UNCHANGED <<now, codes, rooms, nextDoc, restVars, issued, rejected, unpaired,
                   conn, channels, socketRooms, joined, received, acked,
                   send, nextMsg, nextMark, nSignal>>

\* The four signaling handlers: the session is looked up and the event relayed
\* to the rest of the session's room; only call_offer adds the sender's deviceId.
Relay(c, kind, dev) ==
    /\ conn[c] = "open"
    /\ IF SessionGet(socketRooms, c) = NoCtx
       THEN UNCHANGED <<emitted, nSignal>>
       ELSE /\ nSignal < MaxSignals
            /\ emitted' = Emit(kind, SessionGet(socketRooms, c).roomId, c,
                               SocketTo(c, SessionGet(socketRooms, c).roomId), 0, dev,
                               NoToken)
            /\ nSignal' = nSignal + 1
    /\ UNCHANGED <<now, storeVars, nextDoc, restVars, issued, rejected, unpaired,
                   conn, channels, socketRooms, joined, received, acked,
                   send, nextMsg, mark, nextMark>>

CallOffer(c) == Relay(c, "call_offer", SessionGet(socketRooms, c).deviceId)

CallAnswer(c) == Relay(c, "call_answer", "")

IceCandidate(c) == Relay(c, "ice_candidate", "")

CallEnd(c) == Relay(c, "call_ended", "")

\* The socket closes: socket.io takes it out of its channels, then the
\* 'disconnect' handler tells the rest of the session's room and unbinds it.
Disconnect(c) ==
    /\ conn[c] = "open"
    /\ conn' = [conn EXCEPT ![c] = "closed"]
    /\ channels' = [channels EXCEPT ![c] = {}]
    /\ IF SessionGet(socketRooms, c) # NoCtx
       THEN /\ emitted' = Emit("peer_offline", SessionGet(socketRooms, c).roomId, c,
                               SocketTo(c, SessionGet(socketRooms, c).roomId), 0,
                               SessionGet(socketRooms, c).deviceId, NoToken)
            /\ socketRooms' = SessionUnbind(socketRooms, c)
       ELSE UNCHANGED <<emitted, socketRooms>>
    /\ joined' = [joined EXCEPT ![c] = {}]
    /\ UNCHANGED <<now, storeVars, nextDoc, restVars, issued, rejected, unpaired,
                   received, acked, taskVars>>

\* ------------------------------------------------ requests behind authMiddleware
\* authMiddleware: 401 without a token or with one that does not verify.
AuthStatus(token) ==
    IF token = NoToken THEN "Unauthorized"
    ELSE IF ~JwtVerify(token) THEN "Invalid token"
    ELSE "ok"

\* A slip: the filter is left out.
FindMessagesAll(rows, roomId) == rows

\* Message.find({ roomId }); at most MaxMsgs < 500 messages exist.
FindMessages(rows, roomId) == {r \in rows : r.roomId = roomId}

\* Message.deleteMany({ roomId })
DeleteMessages(rows, roomId) == {r \in rows : r.roomId # roomId}

\* GET /api/messages/:roomId
ListMessages(roomId, token) ==
    /\ LET stale == token.roomId \in unpaired IN
       answered' =
            IF AuthStatus(token) # "ok"
            THEN Answer("list", roomId, token, stale, 401, AuthStatus(token), {})
            ELSE IF roomId # token.roomId
            THEN Answer("list", roomId, token, stale, 403, "Forbidden", {})
            ELSE Answer("list", roomId, token, stale, 200, "", FindMessages(messages, roomId))
    /\ UNCHANGED <<now, storeVars, nextDoc, req, auth, issued, rejected, unpaired,
                   socketVars, taskVars>>

\* DELETE /api/messages/:roomId
ClearMessages(roomId, token) ==
    /\ LET stale == token.roomId \in unpaired IN
       IF AuthStatus(token) # "ok"
       THEN /\ answered' = Answer("clear", roomId, token, stale, 401, AuthStatus(token), {})
            /\ UNCHANGED <<messages, emitted>>
       ELSE IF roomId # token.roomId
       THEN /\ answered' = Answer("clear", roomId, token, stale, 403, "Forbidden", {})
            /\ UNCHANGED <<messages, emitted>>
       ELSE /\ messages' = DeleteMessages(messages, roomId)
            /\ emitted' = Emit("chat_cleared", roomId, 0, IoTo(roomId), 0, "", NoToken)
            /\ answered' = Answer("clear", roomId, token, stale, 200, "", {})
    /\ UNCHANGED <<now, codes, rooms, nextDoc, req, auth, issued, rejected, unpaired,
                   conn, channels, socketRooms, joined, received, acked, taskVars>>

\* POST /api/pairing/unpair up to its second await: authMiddleware, then
\* await Room.deleteOne({ roomId }) for the claim's room.
Unpair(a, token) ==
    /\ FreeAuth(a)
    /\ IF AuthStatus(token) # "ok"
       THEN /\ answered' = Answer("unpair", "", token, FALSE, 401, AuthStatus(token), {})
            /\ UNCHANGED <<rooms, auth>>
       ELSE /\ rooms' = {x \in rooms : x.roomId # token.roomId}
            /\ auth' = [auth EXCEPT ![a] = [pc |-> "u_msgs", roomId |-> token.roomId]]
            /\ UNCHANGED answered
    /\ UNCHANGED <<now, codes, messages, nextDoc, req, issued, rejected, unpaired,
                   socketVars, taskVars>>

\* await Message.deleteMany({ roomId })
UnpairDeleteMessages(a) ==
    /\ auth[a].pc = "u_msgs"
    /\ messages' = DeleteMessages(messages, auth[a].roomId)
    /\ auth' = [auth EXCEPT ![a].pc = "u_codes"]
    /\ UNCHANGED <<now, codes, rooms, nextDoc, req, answered, issued, rejected, unpaired,
                   socketVars, taskVars>>

\* await PairingCode.deleteMany({ roomId }), then 'unpaired' is broadcast and
\* the request answered.
UnpairDeleteCodes(a) ==
    /\ auth[a].pc = "u_codes"
    /\ codes' = {r \in codes : r.roomId # auth[a].roomId}
    /\ emitted' = Emit("unpaired", auth[a].roomId, 0, IoTo(auth[a].roomId), 0, "", NoToken)
    /\ unpaired' = unpaired \cup {auth[a].roomId}
    /\ answered' = Answer("unpair", auth[a].roomId,
                          JwtSign("", auth[a].roomId), FALSE, 200, "", {})
    /\ auth' = [auth EXCEPT ![a] = IdleAuth]
    /\ UNCHANGED <<now, rooms, messages, nextDoc, req, issued, rejected,
                   conn, channels, socketRooms, joined, received, acked, taskVars>>

\* ------------------------------------------------------------ specifications
\* The pairing registry alone, with every input and the clock, for MaxReqs
\* requests.
NextPairing ==
    \/ Tick
    \/ \E p \in 1..MaxReqs, d \in Devices \cup {""}, c \in CodeStrs : Generate(p, d, c)
    \/ \E p \in 1..MaxReqs : GenerateSave(p)
    \/ \E p \in 1..MaxReqs, c \in CodeStrs \cup {""}, d \in Devices \cup {""} : Enter(p, c, d)
    \/ \E p \in 1..MaxReqs : EnterDeleteOne(p)
    \/ \E p \in 1..MaxReqs : EnterSavePaired(p)
    \/ \E p \in 1..MaxReqs : EnterSaveRoom(p)

SpecPairing == Init /\ [][NextPairing]_vars

\* The pairing registry on a store that can reject a write: dA generates, dB
\* and dC enter.
NextFaults ==
    \/ \E p \in 1..MaxReqs, c \in CodeStrs : Generate(p, "dA", c)
    \/ \E p \in 1..MaxReqs : GenerateSave(p)
    \/ \E p \in 1..MaxReqs, c \in CodeStrs, d \in {"dB", "dC"} : Enter(p, c, d)
    \/ \E p \in 1..MaxReqs : EnterSavePaired(p)
    \/ \E p \in 1..MaxReqs : EnterSaveRoom(p)
    \/ \E p \in 1..MaxReqs : EnterSaveThrows(p)

SpecFaults == Init /\ [][NextFaults]_vars

\* The tokens a client can present: the claims the server has signed, and forgeries.
Tokens == {i.token : i \in issued} \cup Forged

\* The room ids that exist so far.
RoomIds == {UUID(n) : n \in 1..(nextDoc - 1)}

\* The relay: device dA generates, dA or dB enters (RelayReqs pairing requests
\* in all), and the sockets use the room for RelayMsgs messages.
NextRelay ==
    \/ \E p \in 1..RelayReqs : Generate(p, "dA", "100000")
    \/ \E p \in 1..RelayReqs : GenerateSave(p)
    \/ \E p \in 1..RelayReqs, d \in {"dA", "dB"} : Enter(p, "100000", d)
    \/ \E p \in 1..RelayReqs : EnterSavePaired(p)
    \/ \E p \in 1..RelayReqs : EnterSaveRoom(p)
    \/ \E c \in Conns : Connect(c)
    \/ \E c \in Conns, d \in {"dA"} \cup RoomIds : RegisterDevice(c, d)
    \/ \E c \in Conns, r \in RoomIds, t \in Tokens : JoinRoom(c, r, t)
    \/ \E c \in Conns, x \in Contents, cb \in BOOLEAN :
          nextMsg <= RelayMsgs /\ SendBegin(c, x, cb)
    \/ \E m \in MsgIds : SendSave(m)
    \/ \E c \in Conns, m \in MsgIds : nextMark <= RelayMarks /\ MarkBegin(c, m)
    \/ \E k \in MarkIds : MarkUpdate(k)
    \/ \E c \in Conns : CallOffer(c)
    \/ \E c \in Conns : CallAnswer(c)
    \/ \E c \in Conns : IceCandidate(c)
    \/ \E c \in Conns : CallEnd(c)
    \/ \E c \in Conns : Disconnect(c)

SpecRelay == Init /\ [][NextRelay]_vars

\* The message history: dA and dB pair, their sockets join and send, and the
\* history is listed, cleared and unpaired over REST.
NextHistory ==
    \/ \E p \in 1..RelayReqs : Generate(p, "dA", "100000")
    \/ \E p \in 1..RelayReqs : GenerateSave(p)
    \/ \E p \in 1..RelayReqs : Enter(p, "100000", "dB")
    \/ \E p \in 1..RelayReqs : EnterSavePaired(p)
    \/ \E p \in 1..RelayReqs : EnterSaveRoom(p)
    \/ \E c \in Conns : Connect(c)
    \/ \E c \in Conns, r \in RoomIds, t \in Tokens : JoinRoom(c, r, t)
    \/ \E c \in Conns : nextMsg <= RelayMsgs /\ SendBegin(c, "hi", TRUE)
    \/ \E m \in MsgIds : SendSave(m)
    \/ \E r \in RoomIds, t \in Tokens \cup {NoToken} : ListMessages(r, t)
    \/ \E r \in RoomIds, t \in Tokens \cup {NoToken} : ClearMessages(r, t)
    \/ \E a \in AuthReqs, t \in Tokens \cup {NoToken} : Unpair(a, t)
    \/ \E a \in AuthReqs : UnpairDeleteMessages(a)
    \/ \E a \in AuthReqs : UnpairDeleteCodes(a)

SpecHistory == Init /\ [][NextHistory]_vars

\* The order of messages: dA and dB pair, and their sockets join, send MaxMsgs
\* messages and close.
NextOrder ==
    \/ \E p \in 1..RelayReqs : Generate(p, "dA", "100000")
    \/ \E p \in 1..RelayReqs : GenerateSave(p)
    \/ \E p \in 1..RelayReqs : Enter(p, "100000", "dB")
    \/ \E p \in 1..RelayReqs : EnterSavePaired(p)
    \/ \E p \in 1..RelayReqs : EnterSaveRoom(p)
    \/ \E c \in Conns : Connect(c)
    \/ \E c \in Conns, r \in RoomIds, t \in Tokens : JoinRoom(c, r, t)
    \/ \E c \in Conns, x \in Contents : SendBegin(c, x, TRUE)
    \/ \E m \in MsgIds : SendSave(m)
    \/ \E c \in Conns : Disconnect(c)

SpecOrder == Init /\ [][NextOrder]_vars

\* The claims returned to entering devices.
EnteredTokens == {i.token : i \in {j \in issued : j.via = "response"}}

\* Two rooms: dA generates twice and dB enters both codes (RoomReqs pairing
\* requests in all); RoomConns sockets join the rooms with dB's claims, send
\* messages and mark one, and the histories are listed and cleared over REST.
NextRooms ==
    \/ \E p \in Reqs, c \in CodeStrs : Generate(p, "dA", c)
    \/ \E p \in Reqs : GenerateSave(p)
    \/ \E p \in Reqs, c \in CodeStrs : Enter(p, c, "dB")
    \/ \E p \in Reqs : EnterSavePaired(p)
    \/ \E p \in Reqs : EnterSaveRoom(p)
    \/ \E c \in 1..RoomConns : Connect(c)
    \/ \E c \in 1..RoomConns, t \in EnteredTokens : JoinRoom(c, t.roomId, t)
    \/ \E c \in 1..RoomConns : SendBegin(c, "hi", TRUE)
    \/ \E m \in MsgIds : SendSave(m)
    \/ \E c \in 1..RoomConns, m \in MsgIds : nextMark <= RelayMarks /\ MarkBegin(c, m)
    \/ \E k \in MarkIds : MarkUpdate(k)
    \/ \E r \in RoomIds, t \in EnteredTokens : ListMessages(r, t)
    \/ \E r \in RoomIds, t \in EnteredTokens : ClearMessages(r, t)

SpecRooms == Init /\ [][NextRooms]_vars

\* The _ids of the stored messages, which clients learn from 'new_message'.
StoredMsgIds == {x.id : x \in messages}

\* The read flag: dA and dB pair, their sockets join and send RelayMsgs
\* messages, and mark stored messages as read MaxMarks times.
NextRead ==
    \/ \E p \in 1..RelayReqs : Generate(p, "dA", "100000")
    \/ \E p \in 1..RelayReqs : GenerateSave(p)
    \/ \E p \in 1..RelayReqs : Enter(p, "100000", "dB")
    \/ \E p \in 1..RelayReqs : EnterSavePaired(p)
    \/ \E p \in 1..RelayReqs : EnterSaveRoom(p)
    \/ \E c \in Conns : Connect(c)
    \/ \E c \in Conns, r \in RoomIds, t \in Tokens : JoinRoom(c, r, t)
    \/ \E c \in Conns : nextMsg <= RelayMsgs /\ SendBegin(c, "hi", TRUE)
    \/ \E m \in MsgIds : SendSave(m)
    \/ \E c \in Conns, m \in StoredMsgIds : MarkBegin(c, m)
    \/ \E k \in MarkIds : MarkUpdate(k)

SpecRead == Init /\ [][NextRead]_vars

\* ================================================================ claims
EnterReq(p) == req[p].op = "enter" /\ req[p].pc # "idle"
DoneEnter(p) == req[p].op = "enter" /\ req[p].pc = "done"
Stored(id) == \E r \in codes : r.id = id
Pending(d) == {r \in codes : r.deviceId = d /\ r.paired = FALSE}

\* C1 (as stated): two pairing-enter calls by different devices, neither the
\* generator, that both read the same pending, unexpired code: one is answered
\* 200 and the other 404.
C1_ExactlyOneWins ==
    \A p, q \in Reqs :
        ( /\ p # q
          /\ DoneEnter(p) /\ DoneEnter(q)
          /\ req[p].pairing # NoRow
          /\ req[p].pairing.id = req[q].pairing.id
          /\ req[p].deviceId # req[q].deviceId
          /\ req[p].deviceId # req[p].pairing.deviceId
          /\ req[q].deviceId # req[p].pairing.deviceId
          /\ Stored(req[p].pairing.id)
          /\ ~IsExpired(req[p].pairing, now) )
        => {req[p].res.status, req[q].res.status} = {200, 404}

\* C2 (as stated): whenever no generate of device d is in progress, at most one
\* PairingCode row with deviceId = d and paired = false is stored.
C2_AtMostOnePending ==
    \A d \in Devices :
        (~\E p \in Reqs : req[p].op = "generate" /\ req[p].pc = "g_save"
                           /\ req[p].deviceId = d)
        => Cardinality(Pending(d)) <= 1

\* A pairing-enter by the device that generated the pending code it read.
SelfEnter(p) ==
    EnterReq(p) /\ req[p].pairing # NoRow /\ req[p].pairing.deviceId = req[p].deviceId

\* C3 (as stated): a pairing-enter on a pending code by its generator is always
\* answered 400 'Cannot pair with yourself', expired or not.
C3_AlwaysSelfPairing ==
    \A p \in Reqs :
        (SelfEnter(p) /\ req[p].pc = "done")
        => req[p].res.status = 400 /\ req[p].res.error = "Cannot pair with yourself"

\* C3 (amended): a pairing-enter on a pending code by its generator is answered
\* 400 'Cannot pair with yourself' when it reads the clock at or before
\* expiresAt, and is on the expiry path (row deleted, 410 'Code expired') when
\* it reads the clock after expiresAt.
C3_SelfPairingUnlessExpired ==
    \A p \in Reqs :
        SelfEnter(p) =>
            IF req[p].at > req[p].pairing.expiresAt
            THEN \/ req[p].pc = "e_delete"
                 \/ /\ req[p].pc = "done"
                    /\ req[p].res.status = 410
                    /\ req[p].res.error = "Code expired"
            ELSE /\ req[p].pc = "done"
                 /\ req[p].res.status = 400
                 /\ req[p].res.error = "Cannot pair with yourself"

\* One generator was refused as self-pairing, another as expired.
C3_Witness ==
    \E p, q \in Reqs :
        /\ SelfEnter(p) /\ req[p].pc = "done" /\ req[p].res.status = 400
        /\ SelfEnter(q) /\ req[q].pc = "done" /\ req[q].res.status = 410

\* C4: a pairing-enter that read a pending code is on the expiry path (410
\* 'Code expired') iff it read the clock after the code's expiresAt; once 410
\* has been answered for a row the row is not stored, and every pairing-enter
\* that reads afterwards does not find that row, and one that finds no row is
\* answered 404.
C4_ExpiredState ==
    /\ \A p \in Reqs :
          (EnterReq(p) /\ req[p].pairing # NoRow) =>
              /\ (req[p].pc = "e_delete" \/ req[p].res.status = 410)
                    <=> req[p].at > req[p].pairing.expiresAt
              /\ req[p].res.status = 410 => req[p].res.error = "Code expired"
    /\ \A id \in rejected : ~Stored(id)

C4_LaterEnter ==
    \A p \in Reqs :
        (req[p].pc = "idle" /\ req'[p].op = "enter" /\ req'[p].code # "")
        => /\ req'[p].pairing.id \notin rejected
           /\ req'[p].pairing = NoRow =>
                 /\ req'[p].pc = "done"
                 /\ req'[p].res.status = 404

C4_ExpiredIffLate == [](C4_ExpiredState) /\ [][C4_LaterEnter]_vars

\* A code was refused as expired and a later pairing-enter on the same code
\* string was answered 404.
C4_Witness ==
    \E p, q \in Reqs :
        /\ p < q
        /\ DoneEnter(p) /\ req[p].res.status = 410
        /\ DoneEnter(q) /\ req[q].code = req[p].code /\ req[q].res.status = 404
        /\ req[p].pairing.id \in rejected

\* The events broadcast on a room's channel.
RoomEvents == {"new_message", "message_read", "peer_online", "peer_offline",
               "chat_cleared", "unpaired", "call_offer", "call_answer",
               "ice_candidate", "call_ended"}

\* C5: the step that answers a pairing-enter with 200 leaves exactly one Room
\* with the code's roomId, its devices the generator and the entering device
\* (two distinct ids), and exactly two claims signed for that roomId: the
\* generator's, emitted as 'paired' on the generator's device channel, and the
\* entering device's, returned in the response.
C5_Paired ==
    \A p \in Reqs :
        (req[p].pc = "e_room" /\ req'[p].pc = "done" /\ req'[p].res.status = 200) =>
            LET r == req[p].pairing.roomId
                gen == req[p].pairing.deviceId
                con == req[p].deviceId
            IN /\ gen # con
               /\ {x \in rooms' : x.roomId = r} = {[roomId |-> r, devices |-> <<gen, con>>]}
               /\ {i \in issued' : i.token.roomId = r}
                    = {[token |-> JwtSign(gen, r), via |-> "paired"],
                       [token |-> JwtSign(con, r), via |-> "response"]}
               /\ emitted'.kind = "paired"
               /\ emitted'.room = gen
               /\ emitted'.token = JwtSign(gen, r)
               /\ emitted'.to = IoTo(gen)
               /\ req'[p].res.roomId = r
               /\ req'[p].res.token = JwtSign(con, r)

C6_Isolated ==
    (emitted' # emitted /\ emitted'.kind \in RoomEvents)
    => \A c \in emitted'.to : emitted'.room \in joined'[c]

C6_RoomIsolation == [][C6_Isolated]_vars

\* C7 (as stated): every socket is sent the 'new_message' events in the order
\* in which the server began to handle the send_message events (the order of
\* the _ids).
C7_DeliveryOrder ==
    \A c \in Conns :
        \A i, j \in DOMAIN received[c] : i < j => received[c][i] < received[c][j]

\* C8: the step in which the Message of a send_message is stored emits exactly
\* one 'new_message' for it, with read = false, to every socket then in the
\* room's channel and to no other, the sender among them if it is still
\* connected; the acknowledgement {success: true, messageId} goes to the
\* sender's callback alone; no socket is sent the same message twice.
C8_Stored(m) == \E x \in messages' : x.id = m /\ x \notin messages

C8_Send ==
    \A m \in MsgIds :
        (send[m].pc = "saving" /\ send'[m].pc = "done" /\ C8_Stored(m)) =>
            LET R == send[m].ctx.roomId
                c == send[m].conn
            IN /\ emitted'.kind = "new_message"
               /\ emitted'.msg = m
               /\ emitted'.room = R
               /\ emitted'.read = FALSE
               /\ emitted'.to = IoTo(R)
               /\ conn[c] = "open" => c \in emitted'.to
               /\ \A x \in Conns :
                     received'[x] = IF x \in IoTo(R) THEN Append(received[x], m)
                                    ELSE received[x]
               /\ acked'.success = TRUE
               /\ acked'.messageId = m
               /\ acked'.to \subseteq {c}
               /\ (send[m].cb /\ conn[c] = "open") => acked'.to = {c}

C8_Once ==
    \A c \in Conns :
        \A i, j \in DOMAIN received[c] : received[c][i] = received[c][j] => i = j

C8_Broadcast == [](C8_Once) /\ [][C8_Send]_vars

\* A message was sent to its sender and to another socket, and acknowledged to
\* the sender.
C8_Witness ==
    /\ emitted.kind = "new_message"
    /\ emitted.from \in emitted.to
    /\ Cardinality(emitted.to) >= 2
    /\ acked = [to |-> {emitted.from}, success |-> TRUE, messageId |-> emitted.msg]

\* C9 (as stated): a listMessages that arrives after the unpair of its claim's
\* room has been answered fails or returns no message.
C9_StaleListEmpty ==
    (answered.op = "list" /\ answered.stale /\ answered.status = 200)
    => answered.messages = {}

\* C10: the session table holds an entry for no socket that is not connected.
C10_NoLeakedSession ==
    \A c \in Conns : conn[c] # "open" => socketRooms[c] = NoCtx

\* A socket with a session closed while its send_message was awaiting the
\* store, and the handler then completed.
C10_Witness ==
    \E c \in Conns :
        /\ conn[c] = "closed"
        /\ emitted.kind = "new_message"
        /\ emitted.from = c
        /\ c \notin emitted.to

\* C11: the step in which a socket with a session (deviceId d, room R) closes
\* emits one 'peer_offline' with deviceId d to every other connected socket
\* that joined R, and not to the closing socket; the step in which a socket
\* without a session closes emits nothing; and 'peer_offline' is emitted by no
\* other step, so at most once for a connection.
C11_Offline ==
    \A c \in Conns :
        (conn[c] = "open" /\ conn'[c] = "closed") =>
            IF socketRooms[c] # NoCtx
            THEN /\ emitted'.kind = "peer_offline"
                 /\ emitted'.from = c
                 /\ emitted'.room = socketRooms[c].roomId
                 /\ emitted'.deviceId = socketRooms[c].deviceId
                 /\ c \notin emitted'.to
                 /\ \A x \in Conns \ {c} :
                       (conn[x] = "open" /\ socketRooms[c].roomId \in joined[x])
                       => x \in emitted'.to
            ELSE emitted' = emitted

C11_OnlyOnClose ==
    (emitted' # emitted /\ emitted'.kind = "peer_offline")
    => conn[emitted'.from] = "open" /\ conn'[emitted'.from] = "closed"

C11_PeerOffline == [][C11_Offline /\ C11_OnlyOnClose]_vars

\* A socket with a session closed and its room's other member was told.
C11_Witness ==
    /\ emitted.kind = "peer_offline"
    /\ conn[emitted.from] = "closed"
    /\ \E x \in emitted.to : emitted.room \in joined[x]

\* C12: the read flag of a stored message never goes from true to false, and
\* a message is stored with read = false; the step that completes a
\* message_read for messageId leaves read = true on that message, whatever it
\* was, leaves every other message as it is, and emits the same 'message_read'
\* {messageId} to the other sockets of the session's room.
C12_Monotone ==
    \A y \in messages' :
        IF \E x \in messages : x.id = y.id
        THEN \A x \in messages : (x.id = y.id /\ x.read) => y.read
        ELSE ~y.read

C12_Mark ==
    \A k \in MarkIds :
        (mark[k].pc = "updating" /\ mark'[k].pc = "done") =>
            /\ \A x \in messages :
                  IF x.id = mark[k].messageId
                  THEN [x EXCEPT !.read = TRUE] \in messages'
                  ELSE x \in messages'
            /\ Cardinality(messages') = Cardinality(messages)
            /\ emitted' = Emit("message_read", mark[k].ctx.roomId, mark[k].conn,
                               IoTo(mark[k].ctx.roomId) \ {mark[k].conn},
                               mark[k].messageId, "", NoToken)

C12_ReadOnce == [][C12_Monotone /\ C12_Mark]_vars

\* Two message_read for one stored message have completed: the second found
\* it read; the other member of the room was told.
C12_Witness ==
    /\ \A k \in MarkIds : mark[k].pc = "done"
    /\ \E x \in messages :
          /\ x.read
          /\ \A k \in MarkIds : mark[k].messageId = x.id
          /\ emitted.kind = "message_read"
          /\ emitted.msg = x.id
          /\ emitted.to # {}

\* C13: a listMessages or clearMessages with a verified claim is answered 403
\* 'Forbidden', with no message, when the roomId asked for is not the claim's,
\* and 200 otherwise; a list changes no message and returns exactly the stored
\* messages of the claim's room; messages are deleted only by a clear answered
\* 200, which deletes exactly the messages of the claim's room.
C13_Answered ==
    (answered.op \in {"list", "clear"} /\ JwtVerify(answered.user)) =>
        IF answered.roomId # answered.user.roomId
        THEN /\ answered.status = 403
             /\ answered.error = "Forbidden"
             /\ answered.messages = {}
        ELSE /\ answered.status = 200
             /\ \A x \in answered.messages : x.roomId = answered.user.roomId

C13_Step ==
    /\ (answered' # answered /\ answered'.op = "list") =>
          /\ messages' = messages
          /\ answered'.status = 200 =>
                answered'.messages = {x \in messages : x.roomId = answered'.user.roomId}
    /\ (answered' # answered /\ answered'.op = "clear" /\ answered'.status # 200) =>
          messages' = messages
    /\ (\E x \in messages : \A y \in messages' : y.id # x.id) =>
          /\ answered'.op = "clear"
          /\ answered'.status = 200
          /\ messages' = {x \in messages : x.roomId # answered'.user.roomId}

C13_OwnRoomOnly == [](C13_Answered) /\ [][C13_Step]_vars

\* A list returned the messages of its claim's room while a message of the
\* other room was stored.
C13_Witness ==
    /\ answered.op = "list"
    /\ answered.status = 200
    /\ answered.messages # {}
    /\ \E x \in messages : x.roomId # answered.user.roomId

\* C14 (as stated): whenever no pairing-enter is in progress, a stored
\* PairingCode row with paired = true has its Room; and a pairing-enter
\* answered 500 leaves the row it read, if still stored, pending.
C14_AllOrNothing ==
    (\A p \in Reqs : ~(EnterReq(p) /\ req[p].pc # "done")) =>
        /\ \A r \in codes : r.paired => \E x \in rooms : x.roomId = r.roomId
        /\ \A p \in Reqs :
              (DoneEnter(p) /\ req[p].res.status = 500) =>
                  \A r \in codes : r.id = req[p].pairing.id => ~r.paired

\* C15: a step that emits 'error' (a join_room whose token does not verify or
\* names another room) sends it to the calling socket alone and changes
\* nothing else: no channel, no session, no stored document; and a session is
\* bound, and 'peer_online' emitted, only for a claim the server signed, on
\* the socket that presented it and for the claim's room.
C15_Refused ==
    (emitted' # emitted /\ emitted'.kind = "error") =>
        /\ emitted'.to = {emitted'.from}
        /\ emitted'.deviceId \in {"Auth failed", "Invalid room"}
        /\ UNCHANGED <<now, storeVars, nextDoc, restVars, issued, rejected, unpaired,
                       conn, channels, socketRooms, joined, received, acked, taskVars>>

C15_Admitted ==
    /\ \A c \in Conns :
          (socketRooms'[c] # socketRooms[c] /\ socketRooms'[c] # NoCtx) =>
              /\ \E i \in issued : /\ i.token.deviceId = socketRooms'[c].deviceId
                                   /\ i.token.roomId = socketRooms'[c].roomId
              /\ emitted'.kind = "peer_online"
              /\ emitted'.from = c
    /\ (emitted' # emitted /\ emitted'.kind = "peer_online") =>
          /\ socketRooms'[emitted'.from] =
                [deviceId |-> emitted'.deviceId, roomId |-> emitted'.room]
          /\ \E i \in issued : /\ i.token.deviceId = emitted'.deviceId
                               /\ i.token.roomId = emitted'.room

C16_Failed ==
    \A m \in MsgIds :
        ( /\ send[m].pc = "saving"
          /\ send'[m].pc = "done"
          /\ ~\E x \in messages' : x.id = m ) =>
            /\ messages' = messages
            /\ emitted' = emitted
            /\ received' = received
            /\ acked'.success = FALSE
            /\ acked'.messageId = 0
            /\ acked'.to \subseteq {send[m].conn}
            /\ (send[m].cb /\ conn[send[m].conn] = "open") => acked'.to = {send[m].conn}

C16_SaveFailed == [][C16_Failed]_vars

\* A send_message failed and its sender, in a room with another socket, was
\* told so; nothing was stored or delivered.
C16_Witness ==
    /\ send[1].pc = "done"
    /\ messages = {}
    /\ \A c \in Conns : received[c] = <<>>
    /\ acked.success = FALSE
    /\ \E c \in acked.to :
          /\ socketRooms[c] # NoCtx
          /\ Cardinality(IoTo(socketRooms[c].roomId)) >= 2

\* The events relayed by the call signaling handlers.
CallEvents == {"call_offer", "call_answer", "ice_candidate", "call_ended"}

\* C17: send_message, message_read and the call signaling events of a socket
\* without a session have no effect: every handler in flight holds the session
\* its socket had when the event arrived; a message is stored or changed, an
\* acknowledgement passed and 'new_message' or 'message_read' emitted only by
\* such a handler; a call event is relayed only from a socket with a session,
\* to that session's room; and 'error' is emitted by join_room alone.
C17_InFlight ==
    /\ \A m \in MsgIds : send[m].pc = "saving" => send[m].ctx # NoCtx
    /\ \A k \in MarkIds : mark[k].pc = "updating" => mark[k].ctx # NoCtx

C17_Step ==
    /\ \A m \in MsgIds :
          (send[m].pc = "idle" /\ send'[m].pc = "saving") =>
              /\ socketRooms[send'[m].conn] # NoCtx
              /\ send'[m].ctx = socketRooms[send'[m].conn]
    /\ \A k \in MarkIds :
          (mark[k].pc = "idle" /\ mark'[k].pc = "updating") =>
              /\ socketRooms[mark'[k].conn] # NoCtx
              /\ mark'[k].ctx = socketRooms[mark'[k].conn]
    /\ (emitted' # emitted /\ emitted'.kind \in CallEvents) =>
          /\ socketRooms[emitted'.from] # NoCtx
          /\ emitted'.room = socketRooms[emitted'.from].roomId
    /\ (emitted' # emitted /\ emitted'.kind = "new_message") =>
          /\ send[emitted'.msg].pc = "saving"
          /\ send'[emitted'.msg].pc = "done"
    /\ (emitted' # emitted /\ emitted'.kind = "message_read") =>
          \E k \in MarkIds : /\ mark[k].pc = "updating" /\ mark'[k].pc = "done"
                             /\ mark[k].conn = emitted'.from
    /\ acked' # acked =>
          \E m \in MsgIds : /\ send[m].pc = "saving" /\ send'[m].pc = "done"
                            /\ acked'.to \subseteq {send[m].conn}
    /\ messages' # messages =>
          \/ \E m \in MsgIds : send[m].pc = "saving" /\ send'[m].pc = "done"
          \/ \E k \in MarkIds : mark[k].pc = "updating" /\ mark'[k].pc = "done"
    /\ (emitted' # emitted /\ emitted'.kind = "error") =>
          emitted'.deviceId \in {"Auth failed", "Invalid room"}

C17_NoSessionNoEffect == [](C17_InFlight) /\ [][C17_Step]_vars

\* A connected socket without a session, in the channel of a room whose member
\* is connected, can send every one of the events, and each leaves this state
\* as it is.
C17_Witness ==
    \E c, x \in Conns :
        /\ conn[c] = "open" /\ socketRooms[c] = NoCtx
        /\ conn[x] = "open" /\ socketRooms[x] # NoCtx
        /\ socketRooms[x].roomId \in channels[c]
        /\ nextMsg <= RelayMsgs /\ nextMark <= RelayMarks /\ nSignal < MaxSignals

\* The events a handler relays with socket.to.
RelayedEvents == CallEvents \cup {"peer_online", "message_read", "peer_offline"}

\* C18 (as stated): a relayed event is not sent to the socket it comes from,
\* is sent to every other connected socket that joined the room of that
\* socket's session, and is sent to no socket that did not join that room.
C18_Relayed ==
    (emitted' # emitted /\ emitted'.kind \in RelayedEvents) =>
        /\ emitted'.from \notin emitted'.to
        /\ \A x \in Conns \ {emitted'.from} :
              (conn'[x] = "open" /\ emitted'.room \in joined'[x]) => x \in emitted'.to
        /\ \A x \in emitted'.to : emitted'.room \in joined'[x]

C18_OthersInRoomOnly == [][C18_Relayed]_vars

\* C19 (as stated): the room channels a connected socket is in are exactly
\* the room of its session, and none if it has no session.
C19_ChannelsAreSession ==
    \A c \in Conns :
        conn[c] = "open" =>
            channels[c] \cap RoomIds =
                IF socketRooms[c] = NoCtx THEN {} ELSE {socketRooms[c].roomId}

\* C20 (as stated): the step that completes a message_read of a socket whose
\* session is for room R leaves every message of another room as it is.
C20_Marked ==
    \A k \in MarkIds :
        (mark[k].pc = "updating" /\ mark'[k].pc = "done") =>
            \A x \in messages : x.roomId # mark[k].ctx.roomId => x \in messages'

C20_MarkOwnRoomOnly == [][C20_Marked]_vars

====
